---- MODULE Spec2Model ----
(***************************************************************************)
(* Portfolio reconciliation and the invitation-token lifecycle of          *)
(* TrustRent: savePortfolio (portfolioManager), the renter registration    *)
(* route (redeem), the withdraw-invite route, the validate-token route     *)
(* (preview) and the send-invites route, over the tables of db/schema.ts.  *)
(*                                                                         *)
(* Text values are sequences of one-character strings, so that trim() and  *)
(* toLowerCase() are computed and not assumed.  A table is the set of its  *)
(* rows.  SQL NULL is Null.  Of the created_at columns only the            *)
(* invitations' and the renters' are kept: nothing reads the others.       *)
(***************************************************************************)
EXTENDS Integers, Sequences, FiniteSets, TLC

\* ------------------------------------------------------------------ bounds
\* Number of requests served in one behaviour (the clock ticks once a request).
MaxOps == 3
\* Number of nodes (buildings + units + renter entries) of a submitted tree.
MaxNodes == 4
\* Number of apartments of a submitted tree.
MaxApts == 1
\* Number of entries of one units or renters list of a submitted tree.
MaxList == 2
\* Math.random() is k / RandDen for k in 0 .. RandDen - 1.
RandDen == 2
\* Number of requests the server works on at the same time.
MaxProcs == 2

\* ------------------------------------------------------- program constants
MaxAttempts == 10
TokenBase == 100000
TokenSpan == 900000
TokenLen == 6

Null == 0

\* ------------------------------------------------------------------- text
Space == " "

\* String.prototype.toLowerCase on one character
LowerChar(c) ==
  CASE c = "A" -> "a"
    [] c = "B" -> "b"
    [] c = "J" -> "j"
    [] c = "K" -> "k"
    [] c = "M" -> "m"
    [] c = "N" -> "n"
    [] OTHER -> c

toLowerCase(s) == [k \in 1..Len(s) |-> LowerChar(s[k])]

RECURSIVE TrimStart(_)
TrimStart(s) ==
  IF s # <<>> /\ Head(s) = Space THEN TrimStart(Tail(s)) ELSE s

RECURSIVE TrimEnd(_)
TrimEnd(s) ==
  IF s # <<>> /\ s[Len(s)] = Space THEN TrimEnd(SubSeq(s, 1, Len(s) - 1)) ELSE s

\* String.prototype.trim
trim(s) == TrimEnd(TrimStart(s))

Digit(d) ==
  CASE d = 0 -> "0" [] d = 1 -> "1" [] d = 2 -> "2" [] d = 3 -> "3" [] d = 4 -> "4"
    [] d = 5 -> "5" [] d = 6 -> "6" [] d = 7 -> "7" [] d = 8 -> "8" [] d = 9 -> "9"

\* Number.prototype.toString for a non-negative integer
RECURSIVE NumToString(_)
NumToString(n) ==
  IF n < 10 THEN <<Digit(n)>> ELSE Append(NumToString(n \div 10), Digit(n % 10))

\* --------------------------------------------------------- token allocator
\* The values Math.random() can return, as numerators over RandDen.
RandomDraws == 0..(RandDen - 1)

\* A generator over the whole range 0 .. 999999, without padding.
generateAccessTokenUnpadded(k) ==
  NumToString((k * (TokenBase + TokenSpan)) \div RandDen)

\* A generator over the whole range 000000 .. 999999, padded with zeros.
generateAccessTokenPadded(k) ==
  LET n == (k * (TokenBase + TokenSpan)) \div RandDen
  IN  [d \in 1..TokenLen |-> Digit((n \div (10 ^ (TokenLen - d))) % 10)]

\* generateAccessToken: Math.floor(100000 + Math.random() * 900000).toString()
generateAccessToken(k) == NumToString(TokenBase + ((k * TokenSpan) \div RandDen))

Exhausted == <<"!">>

\* The message of the Error reserveAccessToken throws.
AllocationExhausted == "Unable to allocate a unique access token. Please try again."

\* An allocator that returns its first draw without the existence check.
reserveAccessTokenUnchecked(attempt, taken) ==
  {[token |-> generateAccessToken(k), attempts |-> attempt + 1] : k \in RandomDraws}

\* reserveAccessToken: the outcomes of the loop from `attempt` on, when the
\* existence check reads the committed tokens `taken`: the token returned (or
\* Exhausted for the throw) and the number of draws made.
RECURSIVE reserveAccessToken(_, _)
reserveAccessToken(attempt, taken) ==
  IF attempt >= MaxAttempts
    THEN {[token |-> Exhausted, attempts |-> attempt]}
    ELSE LET drawn == {generateAccessToken(k) : k \in RandomDraws}
         IN  {[token |-> t, attempts |-> attempt + 1] : t \in drawn \ taken}
               \cup (IF drawn \cap taken # {} THEN reserveAccessToken(attempt + 1, taken) ELSE {})

\* ------------------------------------------------------------ request inputs
Admins == {"ad1"}

\* SavePortfolioInput.companyName / contactEmail
CompanyNames == {<<"C">>, <<" ">>, <<>>}
ContactEmails == {<<"c", "@", "x">>}

\* ApartmentInput without its units: id, name, postalCode
ApartmentHeads ==
  { [id |-> "b1", name |-> <<"M">>, postalCode |-> <<"1">>],
    [id |-> "b2", name |-> <<"N">>, postalCode |-> <<"2">>],
    [id |-> "b1", name |-> <<" ">>, postalCode |-> <<"1">>] }

\* UnitInput without its renters: id, unitNumber
UnitHeads ==
  { [id |-> "u1", unitNumber |-> <<"4">>] }

\* send-invites route: unitId
SendUnitIds == {"u1", "u2"}

\* RenterInput: id (never read by savePortfolio), fullName, email
RenterInputs ==
  { [id |-> "r", fullName |-> <<"J">>, email |-> <<"a", "@", "x">>],
    [id |-> "r", fullName |-> <<"K">>, email |-> <<"A", "@", "x">>],
    [id |-> "r", fullName |-> <<"J">>, email |-> <<"b", "@", "x">>] }

\* renters: RenterInput[] of at most n entries
RECURSIVE RenterLists(_)
RenterLists(n) ==
  IF n <= 0 THEN {<<>>}
  ELSE {<<>>} \cup {<<r>> \o rest : r \in RenterInputs, rest \in RenterLists(n - 1)}

Min(x, y) == IF x <= y THEN x ELSE y

\* UnitInput of at most n nodes
UnitInputs(n) ==
  IF n <= 0 THEN {}
  ELSE {[id |-> h.id, unitNumber |-> h.unitNumber, renters |-> rs]
        : h \in UnitHeads, rs \in RenterLists(Min(n - 1, MaxList))}

\* units: UnitInput[] of at most len entries and n nodes
RECURSIVE UnitLists(_, _)
UnitLists(len, n) ==
  IF n <= 0 \/ len <= 0 THEN {<<>>}
  ELSE {<<>>} \cup
       UNION { {<<u>> \o rest : rest \in UnitLists(len - 1, n - 1 - Len(u.renters))}
               : u \in UnitInputs(n) }

RECURSIVE UnitsWeight(_)
UnitsWeight(us) ==
  IF us = <<>> THEN 0 ELSE 1 + Len(Head(us).renters) + UnitsWeight(Tail(us))

\* ApartmentInput of at most n nodes
ApartmentInputs(n) ==
  IF n <= 0 THEN {}
  ELSE {[id |-> h.id, name |-> h.name, postalCode |-> h.postalCode, units |-> us]
        : h \in ApartmentHeads, us \in UnitLists(MaxList, n - 1)}

\* apartments: ApartmentInput[] of at most len entries and n nodes
RECURSIVE ApartmentLists(_, _)
ApartmentLists(len, n) ==
  IF n <= 0 \/ len <= 0 THEN {<<>>}
  ELSE {<<>>} \cup
       UNION { {<<a>> \o rest : rest \in ApartmentLists(len - 1, n - 1 - UnitsWeight(a.units))}
               : a \in ApartmentInputs(n) }

\* SavePortfolioInput.  A blank company name is rejected before anything else
\* of the payload is read, so it is paired with the empty tree only.
Payloads ==
  [companyName : {n \in CompanyNames : trim(n) # <<>>}, contactEmail : ContactEmails,
   apartments : ApartmentLists(MaxApts, MaxNodes)]
  \cup [companyName : {n \in CompanyNames : trim(n) = <<>>}, contactEmail : ContactEmails,
        apartments : {<<>>}]

\* ------------------------------------------------------------------ state
VARIABLES
  rentalCompanies,     \* rows [id, name, contactEmail, adminId]
  apartmentBuildings,  \* rows [id, companyId, name, postalCode]
  rentalUnits,         \* rows [id, apartmentId, unitNumber]
  renterInvitations,   \* rows [id, unitId, renterName, renterEmail, accessToken,
                       \*       status, createdAt, activatedAt]
  renters,             \* rows [id, fullName, email, apartmentName, unitNumber,
                       \*       companyId, createdAt]
  renterSessions,      \* rows [id, renterId]
  tokenIndex,          \* whether the deployed database carries the unique index
                       \* renter_access_token_unique of the token migration
  clock,               \* Date.now()
  nextId,              \* the next value of randomUUID()
  createdFrom,         \* history: renter id -> id of the invitation it redeemed
  lastOp,              \* history: the last request and its response
  calls                \* per server process: the request it is serving, and how
                       \* far it got, or its last response

vars ==
  <<rentalCompanies, apartmentBuildings, rentalUnits, renterInvitations, renters,
    renterSessions, tokenIndex, clock, nextId, createdFrom, lastOp, calls>>

\* ------------------------------------------------- transactional data access
\* The state of one db.transaction: the tables as the transaction sees them,
\* whether a statement has thrown, and the UUID source.
TxBegin(db, nid) ==
  [co |-> db.co, b |-> db.b, u |-> db.u, i |-> db.i, failed |-> FALSE, error |-> "",
   nid |-> nid]

\* A statement throws: the callback ends with the Error's message.
Throw(s, message) == [s EXCEPT !.failed = TRUE, !.error = message]

Fail(s) == Throw(s, "transaction failed")

\* The message of PostgreSQL's unique_violation.
DuplicateKey == "duplicate key value violates unique constraint"

\* Any statement may throw (connection loss, statement timeout): the outcomes
\* of a statement whose effect is s2.
Statement(s, s2) == {s2, Fail(s)}

\* A delete of the building row alone, as without ON DELETE CASCADE.
DeleteApartmentOnly(s, id) ==
  Statement(s, [s EXCEPT !.b = {r \in s.b : r.id # id}])

\* DELETE FROM apartment_buildings WHERE id = ...; ON DELETE CASCADE
DeleteApartment(s, id) ==
  LET gone == {u \in s.u : u.apartmentId = id}
  IN  Statement(s, [s EXCEPT !.b = {r \in s.b : r.id # id},
                             !.u = s.u \ gone,
                             !.i = {r \in s.i : r.unitId \notin {u.id : u \in gone}}])

\* DELETE FROM rental_units WHERE id = ...; ON DELETE CASCADE
DeleteUnit(s, id) ==
  Statement(s, [s EXCEPT !.u = {r \in s.u : r.id # id},
                         !.i = {r \in s.i : r.unitId # id}])

\* DELETE FROM renter_invitations WHERE id = ...
DeleteInvitation(s, id) ==
  Statement(s, [s EXCEPT !.i = {r \in s.i : r.id # id}])

\* INSERT INTO apartment_buildings: primary key id
InsertApartment(s, row) ==
  IF \E r \in s.b : r.id = row.id
    THEN {Throw(s, DuplicateKey)}
    ELSE Statement(s, [s EXCEPT !.b = s.b \cup {row}])

UpdateApartment(s, id, name, postalCode) ==
  Statement(s, [s EXCEPT !.b = {IF r.id = id
                                  THEN [r EXCEPT !.name = name, !.postalCode = postalCode]
                                  ELSE r : r \in s.b}])

\* INSERT INTO rental_units: primary key id, foreign key apartment_id
InsertUnit(s, row) ==
  IF \E r \in s.u : r.id = row.id
    THEN {Throw(s, DuplicateKey)}
  ELSE IF ~(\E a \in s.b : a.id = row.apartmentId)
    THEN {Fail(s)}
    ELSE Statement(s, [s EXCEPT !.u = s.u \cup {row}])

UpdateUnit(s, id, unitNumber) ==
  Statement(s, [s EXCEPT !.u = {IF r.id = id THEN [r EXCEPT !.unitNumber = unitNumber]
                                ELSE r : r \in s.u}])

\* INSERT INTO renter_invitations: foreign key unit_id and, where the token
\* migration was applied, the unique index on access_token
InsertInvitation(s, row) ==
  IF tokenIndex /\ \E r \in s.i : r.accessToken = row.accessToken
    THEN {Throw(s, DuplicateKey)}
  ELSE IF ~(\E u \in s.u : u.id = row.unitId)
    THEN {Fail(s)}
    ELSE Statement(s, [s EXCEPT !.i = s.i \cup {row}, !.nid = s.nid + 1])

\* An update that re-issues the invitation it renames.
UpdateInvitationNameReissue(s, id, renterName) ==
  Statement(s, [s EXCEPT !.i = {IF r.id = id
                                  THEN [r EXCEPT !.renterName = renterName,
                                                 !.status = "pending",
                                                 !.activatedAt = Null]
                                  ELSE r : r \in s.i}])

\* tx.update(renterInvitations).set({ renterName }).where(eq(id, ...))
UpdateInvitationName(s, id, renterName) ==
  Statement(s, [s EXCEPT !.i = {IF r.id = id THEN [r EXCEPT !.renterName = renterName]
                                ELSE r : r \in s.i}])

\* Run `step` on every state of S that has not failed; a failed state stays
\* (an exception leaves the transaction callback at once).
Each(S, step(_)) == UNION {IF s.failed THEN {s} ELSE step(s) : s \in S}

\* ------------------------------------------------------------ savePortfolio
\* for (const apt of existingApartments) if (!payloadAptIds.has(apt.id)) delete
RECURSIVE DeleteApartments(_, _)
DeleteApartments(S, ids) ==
  IF ids = {} THEN S
  ELSE LET id == CHOOSE x \in ids : TRUE
       IN  DeleteApartments(Each(S, LAMBDA s : DeleteApartment(s, id)), ids \ {id})

\* for (const unit of existingUnits) if (!payloadUnitIds.has(unit.id)) delete
RECURSIVE DeleteUnits(_, _)
DeleteUnits(S, ids) ==
  IF ids = {} THEN S
  ELSE LET id == CHOOSE x \in ids : TRUE
       IN  DeleteUnits(Each(S, LAMBDA s : DeleteUnit(s, id)), ids \ {id})

\* for (const inv of existingInvites) if (!payloadEmails.has(...)) delete
RECURSIVE DeleteInvitations(_, _)
DeleteInvitations(S, ids) ==
  IF ids = {} THEN S
  ELSE LET id == CHOOSE x \in ids : TRUE
       IN  DeleteInvitations(Each(S, LAMBDA s : DeleteInvitation(s, id)), ids \ {id})

\* new Map(existingInvites.map((inv) => [inv.renterEmail.toLowerCase(), inv])):
\* of several rows with one key the Map keeps the last the SELECT returned, and
\* the SELECT has no ORDER BY.
ExistingEmails(existingInvites) ==
  LET keys == {toLowerCase(r.renterEmail) : r \in existingInvites}
  IN  {m \in [keys -> existingInvites] : \A k \in keys : toLowerCase(m[k].renterEmail) = k}

\* The body of `for (const renter of unit.renters)`.  `taken` are the tokens the
\* allocator's existence check can see: it queries through `db`, another pooled
\* connection than the transaction's, and so reads committed rows only.
UpsertRenter(s, unitId, renter, existingEmails, taken, now) ==
  LET renterEmail == toLowerCase(trim(renter.email))
      renterName == trim(renter.fullName)
  IN  IF renterEmail = <<>> \/ renterName = <<>> THEN {s}
      ELSE IF renterEmail \in DOMAIN existingEmails
        THEN UpdateInvitationName(s, existingEmails[renterEmail].id, renterName)
        ELSE UNION { IF accessToken = Exhausted
                       THEN {Throw(s, AllocationExhausted)}
                       ELSE InsertInvitation(s,
                              [id |-> s.nid, unitId |-> unitId, renterName |-> renterName,
                               renterEmail |-> renterEmail, accessToken |-> accessToken,
                               status |-> "pending", createdAt |-> now,
                               activatedAt |-> Null])
                     : accessToken \in {r.token : r \in reserveAccessToken(0, taken)} }

RECURSIVE UpsertRenters(_, _, _, _, _, _, _)
UpsertRenters(S, unitId, rentersIn, k, existingEmails, taken, now) ==
  IF k > Len(rentersIn) THEN S
  ELSE UpsertRenters(
         Each(S, LAMBDA s : UpsertRenter(s, unitId, rentersIn[k], existingEmails, taken, now)),
         unitId, rentersIn, k + 1, existingEmails, taken, now)

\* What follows the unit upsert, from "Get existing invitations for this unit"
SyncInvitations(s, unit, taken, now) ==
  LET existingInvites == {r \in s.i : r.unitId = unit.id}
      payloadEmails == {toLowerCase(trim(unit.renters[k].email)) : k \in 1..Len(unit.renters)}
      removed == {r.id : r \in {x \in existingInvites :
                                  toLowerCase(x.renterEmail) \notin payloadEmails}}
  IN  UNION { UpsertRenters(DeleteInvitations({s}, removed), unit.id, unit.renters, 1,
                            existingEmails, taken, now)
              : existingEmails \in ExistingEmails(existingInvites) }

\* The body of `for (const unit of apartment.units)`
UpsertUnit(s, apartmentId, unit, existingUnitIds, taken, now) ==
  LET unitNumber == trim(unit.unitNumber)
  IN  IF unitNumber = <<>> THEN {s}
      ELSE Each(IF unit.id \in existingUnitIds
                  THEN UpdateUnit(s, unit.id, unitNumber)
                  ELSE InsertUnit(s, [id |-> unit.id, apartmentId |-> apartmentId,
                                      unitNumber |-> unitNumber]),
                LAMBDA s1 : SyncInvitations(s1, unit, taken, now))

RECURSIVE UpsertUnits(_, _, _, _, _, _, _)
UpsertUnits(S, apartmentId, unitsIn, k, existingUnitIds, taken, now) ==
  IF k > Len(unitsIn) THEN S
  ELSE UpsertUnits(
         Each(S, LAMBDA s : UpsertUnit(s, apartmentId, unitsIn[k], existingUnitIds, taken, now)),
         apartmentId, unitsIn, k + 1, existingUnitIds, taken, now)

\* What follows the apartment upsert, from "Get existing units for this apartment"
SyncUnits(s, apartment, taken, now) ==
  LET existingUnitIds == {r.id : r \in {x \in s.u : x.apartmentId = apartment.id}}
      payloadUnitIds == {apartment.units[k].id : k \in 1..Len(apartment.units)}
  IN  UpsertUnits(DeleteUnits({s}, existingUnitIds \ payloadUnitIds), apartment.id,
                  apartment.units, 1, existingUnitIds, taken, now)

\* An upsert that updates the building of the payload's id whichever company
\* it belongs to.
UpsertApartmentAnyCompany(s, companyId, apartment, existingAptIds, taken, now) ==
  LET apartmentName == trim(apartment.name)
  IN  IF apartmentName = <<>> THEN {s}
      ELSE Each(IF \E r \in s.b : r.id = apartment.id
                  THEN UpdateApartment(s, apartment.id, apartmentName,
                                       trim(apartment.postalCode))
                  ELSE InsertApartment(s, [id |-> apartment.id, companyId |-> companyId,
                                           name |-> apartmentName,
                                           postalCode |-> trim(apartment.postalCode)]),
                LAMBDA s1 : SyncUnits(s1, apartment, taken, now))

\* The body of `for (const apartment of payload.apartments)`
UpsertApartment(s, companyId, apartment, existingAptIds, taken, now) ==
  LET apartmentName == trim(apartment.name)
  IN  IF apartmentName = <<>> THEN {s}
      ELSE Each(IF apartment.id \in existingAptIds
                  THEN UpdateApartment(s, apartment.id, apartmentName,
                                       trim(apartment.postalCode))
                  ELSE InsertApartment(s, [id |-> apartment.id, companyId |-> companyId,
                                           name |-> apartmentName,
                                           postalCode |-> trim(apartment.postalCode)]),
                LAMBDA s1 : SyncUnits(s1, apartment, taken, now))

RECURSIVE UpsertApartments(_, _, _, _, _, _, _)
UpsertApartments(S, companyId, apartmentsIn, k, existingAptIds, taken, now) ==
  IF k > Len(apartmentsIn) THEN S
  ELSE UpsertApartments(
         Each(S, LAMBDA s : UpsertApartment(s, companyId, apartmentsIn[k], existingAptIds,
                                            taken, now)),
         companyId, apartmentsIn, k + 1, existingAptIds, taken, now)

\* What follows the company upsert, from "Get existing apartments for this company"
SyncApartments(s, companyId, payload, taken, now) ==
  LET existingAptIds == {r.id : r \in {x \in s.b : x.companyId = companyId}}
      payloadAptIds == {payload.apartments[k].id : k \in 1..Len(payload.apartments)}
  IN  UpsertApartments(DeleteApartments({s}, existingAptIds \ payloadAptIds), companyId,
                       payload.apartments, 1, existingAptIds, taken, now)

\* "Upsert company"
\* An upsert that inserts a company row on every call.
UpsertCompanyAlwaysInsert(s, existingCompany, companyId, adminId, payload, now) ==
  Statement(s, [s EXCEPT !.co = s.co \cup
                           {[id |-> IF existingCompany = {} THEN companyId ELSE s.nid,
                             name |-> trim(payload.companyName),
                             contactEmail |-> trim(payload.contactEmail),
                             adminId |-> adminId]},
                         !.nid = s.nid + 1])

UpsertCompany(s, existingCompany, companyId, adminId, payload, now) ==
  LET name == trim(payload.companyName)
      contactEmail == IF trim(payload.contactEmail) = <<>> THEN Null
                      ELSE trim(payload.contactEmail)
  IN  IF existingCompany # {}
        THEN Statement(s, [s EXCEPT !.co = {IF r.id = companyId
                                              THEN [r EXCEPT !.name = name,
                                                             !.contactEmail = contactEmail]
                                              ELSE r : r \in s.co}])
        ELSE Statement(s, [s EXCEPT !.co = s.co \cup
                                      {[id |-> companyId, name |-> name,
                                        contactEmail |-> contactEmail,
                                        adminId |-> adminId]},
                                    !.nid = s.nid + 1])

\* The callback of db.transaction in savePortfolio for the company row
\* `existingCompany` (a set: empty when the admin has no company yet): the
\* states in which the callback can end.
SaveTransaction(db, nid, existingCompany, adminId, payload, now) ==
  LET companyId == IF existingCompany = {} THEN nid
                   ELSE (CHOOSE c \in existingCompany : TRUE).id
      taken == {r.accessToken : r \in db.i}
  IN  Each(UpsertCompany(TxBegin(db, nid), existingCompany, companyId, adminId, payload, now),
           LAMBDA s : SyncApartments(s, companyId, payload, taken, now))

\* A callback run statement by statement on the pool, without a transaction.
CommitEachStatement(db, s) ==
  [co |-> s.co, b |-> s.b, u |-> s.u, i |-> s.i]

\* db.transaction: COMMIT when the callback returns, ROLLBACK when it throws.
Commit(db, s) ==
  IF s.failed THEN db ELSE [co |-> s.co, b |-> s.b, u |-> s.u, i |-> s.i]

\* savePortfolio(adminId, payload): the possible outcomes [ok, db, nid, companyId].
savePortfolio(db, nid, adminId, payload, now) ==
  IF trim(payload.companyName) = <<>>
    THEN {[ok |-> FALSE, error |-> "Company name is required", db |-> db, nid |-> nid,
           companyId |-> Null]}
    ELSE UNION {
           { [ok |-> ~s.failed,
              error |-> IF s.failed THEN s.error ELSE "",
              db |-> Commit(db, s),
              nid |-> IF s.failed THEN nid ELSE s.nid,
              companyId |-> IF existingCompany = {} THEN nid
                            ELSE (CHOOSE c \in existingCompany : TRUE).id]
             : s \in SaveTransaction(db, nid, existingCompany, adminId, payload, now) }
           : existingCompany \in
               IF \E c \in db.co : c.adminId = adminId
                 THEN {{c} : c \in {x \in db.co : x.adminId = adminId}}
                 ELSE {{}} }


\* ------------------------------------------------- the request handlers' inputs
\* register route: token, email, fullName (the password never reaches a table
\* but as a hash)
RedeemTokens == {generateAccessToken(k) : k \in RandomDraws} \cup {<<"1", "2">>}
RedeemEmails == {<<"a", "@", "x">>, <<"A", "@", "x">>, <<"b", "@", "x">>}
RedeemNames == {<<"J", "o">>}

\* zod: z.string().min(n)
MinLen(str, n) == Len(str) >= n

\* zod: z.string().email(), as far as these inputs go: one "@" inside, no blank
IsEmail(str) ==
  /\ \E k \in 2..(Len(str) - 1) : str[k] = "@"
  /\ \A k \in 1..Len(str) : str[k] # Space

\* portfolioSchema.safeParse of the save route
PortfolioSchemaOk(payload) ==
  /\ MinLen(payload.companyName, 1)
  /\ \A a \in 1..Len(payload.apartments) :
       LET apt == payload.apartments[a]
       IN  /\ MinLen(apt.name, 1)
           /\ MinLen(apt.postalCode, 1)
           /\ \A u \in 1..Len(apt.units) :
                /\ MinLen(apt.units[u].unitNumber, 1)
                /\ \A r \in 1..Len(apt.units[u].renters) :
                     /\ MinLen(apt.units[u].renters[r].fullName, 1)
                     /\ IsEmail(apt.units[u].renters[r].email)

\* registrationSchema.safeParse of the register route
RegistrationSchemaOk(token, fullName, email) ==
  Len(token) = TokenLen /\ MinLen(fullName, 2) /\ IsEmail(email)

Database ==
  [co |-> rentalCompanies, b |-> apartmentBuildings, u |-> rentalUnits,
   i |-> renterInvitations]

Request(op, ok, result, sel) == [op |-> op, ok |-> ok, result |-> result, sel |-> sel]

\* Server processes (requests served at the same time).
Procs == 1..MaxProcs

Idle == [kind |-> "idle"]

\* A request served from its first statement to its response with no statement
\* of another request in between: Date.now() advances, nothing stays in flight.
Tick == clock <= MaxOps /\ clock' = clock + 1 /\ UNCHANGED calls

\* ------------------------------------------------------------------ actions
Init ==
  /\ rentalCompanies = {}
  /\ apartmentBuildings = {}
  /\ rentalUnits = {}
  /\ renterInvitations = {}
  /\ renters = {}
  /\ renterSessions = {}
  /\ tokenIndex \in BOOLEAN
  /\ clock = 1
  /\ nextId = 1
  /\ createdFrom = <<>>
  /\ lastOp = Request("init", TRUE, "", Null)
  /\ calls = [p \in Procs |-> Idle]

\* A save that also removes the renters left without an invitation.
SavePortfolioPurging(adminId, payload) ==
  /\ Tick
  /\ PortfolioSchemaOk(payload)
  /\ \E out \in savePortfolio(Database, nextId, adminId, payload, clock) :
       /\ rentalCompanies' = out.db.co
       /\ apartmentBuildings' = out.db.b
       /\ rentalUnits' = out.db.u
       /\ renterInvitations' = out.db.i
       /\ nextId' = out.nid
       /\ renters' = {r \in renters : \E i \in out.db.i : toLowerCase(i.renterEmail) = r.email}
       /\ lastOp' = Request("save", out.ok, IF out.ok THEN "ok" ELSE out.error,
                            out.companyId)
  /\ UNCHANGED <<renterSessions, tokenIndex, createdFrom>>

\* POST /api/portfolio/save by a signed-in admin
SavePortfolio(adminId, payload) ==
  /\ Tick
  /\ IF ~PortfolioSchemaOk(payload)
       THEN /\ lastOp' = Request("save", FALSE, "Validation failed", Null)
            /\ UNCHANGED <<rentalCompanies, apartmentBuildings, rentalUnits,
                           renterInvitations, nextId>>
       ELSE \E out \in savePortfolio(Database, nextId, adminId, payload, clock) :
              /\ rentalCompanies' = out.db.co
              /\ apartmentBuildings' = out.db.b
              /\ rentalUnits' = out.db.u
              /\ renterInvitations' = out.db.i
              /\ nextId' = out.nid
              /\ lastOp' = Request("save", out.ok, IF out.ok THEN "ok" ELSE out.error,
                                   out.companyId)
  /\ UNCHANGED <<renters, renterSessions, tokenIndex, createdFrom>>


\* The SELECT ... INNER JOIN rental_units INNER JOIN apartment_buildings of the
\* register, validate-token and withdraw routes: invitation rows with their
\* unit and building.
JoinedInvitations ==
  { j \in [inv : renterInvitations, unit : rentalUnits, apartment : apartmentBuildings] :
      j.unit.id = j.inv.unitId /\ j.apartment.id = j.unit.apartmentId }

\* A registration that marks the invitation used without the timestamp.
RegisterRenterUnstamped(invitation, email, fullName, now) ==
  LET lower == toLowerCase(email)
      renterId == nextId
      renter == [id |-> renterId, fullName |-> trim(fullName), email |-> toLowerCase(lower),
                 apartmentName |-> trim(invitation.apartment.name),
                 unitNumber |-> trim(invitation.unit.unitNumber),
                 companyId |-> invitation.apartment.companyId, createdAt |-> now]
      session == [id |-> nextId + 1, renterId |-> renterId]
      cleared == {x \in renterSessions : x.renterId # renterId}
      used == {IF r.id = invitation.inv.id
                 THEN [r EXCEPT !.status = "used"]
                 ELSE r : r \in renterInvitations}
      out(ok, result, rs, ss, is, nid, rid) ==
        [ok |-> ok, result |-> result, renters |-> rs, sessions |-> ss,
         invitations |-> is, nid |-> nid, renterId |-> rid]
  IN  IF \E r \in renters : r.email = toLowerCase(lower)
        THEN {out(FALSE, "A renter with this email already exists.", renters,
                  renterSessions, renterInvitations, nextId, Null)}
        ELSE { \* db.insert(renters) throws
               out(FALSE, "Registration failed", renters, renterSessions,
                   renterInvitations, nextId, Null),
               \* createRenterSession throws: the delete, the insert or cookies()
               out(FALSE, "Registration failed", renters \cup {renter}, cleared,
                   renterInvitations, nextId + 1, renterId),
               \* db.update(renterInvitations) throws
               out(FALSE, "Registration failed", renters \cup {renter},
                   cleared \cup {session}, renterInvitations, nextId + 2, renterId),
               \* 201
               out(TRUE, "ok", renters \cup {renter}, cleared \cup {session}, used,
                   nextId + 2, renterId) }

\* createRenterAccount and the invitation update of the register route, none
\* of them inside a transaction: every statement commits on its own, and a
\* statement that throws leaves the earlier ones in place.  The outcomes
\* [ok, result, renters, sessions, invitations, nid, renterId].
RegisterRenter(invitation, email, fullName, now) ==
  LET lower == toLowerCase(email)
      renterId == nextId
      renter == [id |-> renterId, fullName |-> trim(fullName), email |-> toLowerCase(lower),
                 apartmentName |-> trim(invitation.apartment.name),
                 unitNumber |-> trim(invitation.unit.unitNumber),
                 companyId |-> invitation.apartment.companyId, createdAt |-> now]
      session == [id |-> nextId + 1, renterId |-> renterId]
      cleared == {x \in renterSessions : x.renterId # renterId}
      used == {IF r.id = invitation.inv.id
                 THEN [r EXCEPT !.status = "used", !.activatedAt = now]
                 ELSE r : r \in renterInvitations}
      out(ok, result, rs, ss, is, nid, rid) ==
        [ok |-> ok, result |-> result, renters |-> rs, sessions |-> ss,
         invitations |-> is, nid |-> nid, renterId |-> rid]
  IN  IF \E r \in renters : r.email = toLowerCase(lower)
        THEN {out(FALSE, "A renter with this email already exists.", renters,
                  renterSessions, renterInvitations, nextId, Null)}
        ELSE { \* db.insert(renters) throws
               out(FALSE, "Registration failed", renters, renterSessions,
                   renterInvitations, nextId, Null),
               \* createRenterSession throws: the delete, the insert or cookies()
               out(FALSE, "Registration failed", renters \cup {renter}, cleared,
                   renterInvitations, nextId + 1, renterId),
               \* db.update(renterInvitations) throws
               out(FALSE, "Registration failed", renters \cup {renter},
                   cleared \cup {session}, renterInvitations, nextId + 2, renterId),
               \* 201
               out(TRUE, "ok", renters \cup {renter}, cleared \cup {session}, used,
                   nextId + 2, renterId) }

\* A comparison of the emails as they were typed.
EmailMatchesExactly(given, stored) == given = stored

\* register route: email.toLowerCase() !== invitation.renterEmail.toLowerCase()
EmailMatches(given, stored) == toLowerCase(given) = toLowerCase(stored)

\* POST /api/renters/register: the possible responses with their writes.
\* `.limit(1)` without ORDER BY returns any one of the rows carrying the token.
RegisterOutcomes(token, fullName, email, now) ==
  LET found == {j \in JoinedInvitations : j.inv.accessToken = token}
      none(result, sel) ==
        [ok |-> FALSE, result |-> result, renters |-> renters, sessions |-> renterSessions,
         invitations |-> renterInvitations, nid |-> nextId, renterId |-> Null, sel |-> sel]
  IN  IF ~RegistrationSchemaOk(token, fullName, email)
        THEN {none("Validation failed", Null)}
      ELSE IF found = {}
        THEN {none("Invalid token", Null)}
      ELSE UNION {
             IF invitation.inv.status = "used"
               THEN {none("AlreadyUsed", invitation.inv.id)}
             ELSE IF ~EmailMatches(email, invitation.inv.renterEmail)
               THEN {none("EmailMismatch", invitation.inv.id)}
             ELSE { [ok |-> o.ok, result |-> o.result, renters |-> o.renters,
                     sessions |-> o.sessions, invitations |-> o.invitations,
                     nid |-> o.nid, renterId |-> o.renterId, sel |-> invitation.inv.id]
                    : o \in RegisterRenter(invitation, email, fullName, now) }
             : invitation \in found }

\* POST /api/renters/register
Redeem(token, fullName, email) ==
  /\ Tick
  /\ \E out \in RegisterOutcomes(token, fullName, email, clock) :
       /\ renters' = out.renters
       /\ renterSessions' = out.sessions
       /\ renterInvitations' = out.invitations
       /\ nextId' = out.nid
       /\ createdFrom' = IF out.renterId = Null THEN createdFrom
                         ELSE [r \in DOMAIN createdFrom \cup {out.renterId} |->
                                 IF r = out.renterId THEN out.sel ELSE createdFrom[r]]
       /\ lastOp' = Request("redeem", out.ok, out.result, out.sel)
  /\ UNCHANGED <<rentalCompanies, apartmentBuildings, rentalUnits, tokenIndex>>

\* A withdraw that does not look at the owner of the invitation's building.
WithdrawOutcomesAnyAdmin(adminId, invitationId) ==
  LET inviteRow == {j \in JoinedInvitations : j.inv.id = invitationId}
      none(result) == [ok |-> FALSE, result |-> result, invitations |-> renterInvitations]
  IN  IF inviteRow = {}
        THEN {none("NotFound")}
      ELSE IF \E j \in inviteRow : j.inv.status = "used"
        THEN {none("AlreadyUsed")}
      ELSE { none("Failed to withdraw invitation"),
             [ok |-> TRUE, result |-> "ok",
              invitations |-> {r \in renterInvitations : r.id # invitationId}] }

\* POST /api/portfolio/withdraw-invite: the possible responses, each with the
\* invitation table it leaves.
WithdrawOutcomes(adminId, invitationId) ==
  LET inviteRow == {j \in JoinedInvitations : j.inv.id = invitationId}
      companies == {c \in rentalCompanies : c.adminId = adminId}
      none(result) == [ok |-> FALSE, result |-> result, invitations |-> renterInvitations]
  IN  IF inviteRow = {}
        THEN {none("NotFound")}
      ELSE LET row == CHOOSE j \in inviteRow : TRUE
           IN  IF companies = {}
                 THEN {none("Forbidden")}
               ELSE UNION {
                      IF company.id # row.apartment.companyId
                        THEN {none("Forbidden")}
                      ELSE IF row.inv.status = "used"
                        THEN {none("AlreadyUsed")}
                      ELSE { none("Failed to withdraw invitation"),
                             [ok |-> TRUE, result |-> "ok",
                              invitations |-> {r \in renterInvitations : r.id # row.inv.id}] }
                      : company \in companies }

\* POST /api/portfolio/withdraw-invite by a signed-in admin
Withdraw(adminId, invitationId) ==
  /\ Tick
  /\ \E out \in WithdrawOutcomes(adminId, invitationId) :
       /\ renterInvitations' = out.invitations
       /\ lastOp' = Request("withdraw", out.ok, out.result, invitationId)
  /\ UNCHANGED <<rentalCompanies, apartmentBuildings, rentalUnits, renters, renterSessions,
                 tokenIndex, nextId, createdFrom>>

\* The error responses of the validate-token route carry no invitation fields
\* (here: empty texts).
PreviewError(result, sel) ==
  [ok |-> FALSE, result |-> result, sel |-> sel, renterName |-> <<>>, renterEmail |-> <<>>,
   apartmentName |-> <<>>, unitNumber |-> <<>>]

\* The invitation fields of the route's 200 response.
PreviewDetails(j) ==
  [ok |-> TRUE, result |-> "ok", sel |-> j.inv.id, renterName |-> j.inv.renterName,
   renterEmail |-> j.inv.renterEmail, apartmentName |-> j.apartment.name,
   unitNumber |-> j.unit.unitNumber]

\* A preview that answers with the invitation whatever its status.
ValidateTokenResultAnyStatus(token) ==
  LET found == {j \in JoinedInvitations : j.inv.accessToken = token}
  IN  IF Len(token) # TokenLen THEN {PreviewError("Invalid token format", Null)}
      ELSE IF found = {} THEN {PreviewError("Invalid token", Null)}
      ELSE {PreviewDetails(j) : j \in found}

\* POST /api/validate-token: the response.  `.limit(1)` without ORDER BY
\* returns any one of the rows carrying the token.
ValidateTokenResult(token) ==
  LET found == {j \in JoinedInvitations : j.inv.accessToken = token}
  IN  IF Len(token) # TokenLen THEN {PreviewError("Invalid token format", Null)}
      ELSE IF found = {} THEN {PreviewError("Invalid token", Null)}
      ELSE { IF j.inv.status = "used"
               THEN PreviewError("AlreadyUsed", j.inv.id)
               ELSE PreviewDetails(j)
             : j \in found }

\* POST /api/validate-token
ValidateToken(token) ==
  /\ Tick
  /\ \E out \in ValidateTokenResult(token) :
       lastOp' = Request("preview", out.ok, out.result, out.sel)
  /\ UNCHANGED <<rentalCompanies, apartmentBuildings, rentalUnits, renterInvitations,
                 renters, renterSessions, tokenIndex, nextId, createdFrom>>

\* sendInvitesForUnit: the pending invitations of the unit, each mailed its token
sendInvitesForUnit(unitId) ==
  {j.inv.id : j \in {x \in JoinedInvitations : x.inv.unitId = unitId /\ x.inv.status = "pending"}}

\* POST /api/portfolio/send-invites by a signed-in admin: reads only
SendInvites(adminId, unitId) ==
  /\ Tick
  /\ LET companies == {c \in rentalCompanies : c.adminId = adminId}
         unit == {[unitId |-> j.unit.id, companyId |-> j.apartment.companyId]
                  : j \in {x \in [unit : rentalUnits, apartment : apartmentBuildings] :
                             x.unit.id = unitId /\ x.apartment.id = x.unit.apartmentId}}
     IN  IF companies = {}
           THEN lastOp' = Request("sendInvites", FALSE, "No company found", Null)
         ELSE IF unit = {} \/ \A c \in companies : \A u \in unit : u.companyId # c.id
           THEN lastOp' = Request("sendInvites", FALSE, "Forbidden", Null)
         ELSE lastOp' = Request("sendInvites", TRUE, "ok",
                                Cardinality(sendInvitesForUnit(unitId)))
  /\ UNCHANGED <<rentalCompanies, apartmentBuildings, rentalUnits, renterInvitations,
                 renters, renterSessions, tokenIndex, nextId, createdFrom>>

\* ------------------------------------------------------------ specification
Next ==
  \/ \E adminId \in Admins, payload \in Payloads : SavePortfolio(adminId, payload)
  \/ \E token \in RedeemTokens, fullName \in RedeemNames, email \in RedeemEmails :
       Redeem(token, fullName, email)
  \/ \E adminId \in Admins, invitationId \in {r.id : r \in renterInvitations} \cup {Null} :
       Withdraw(adminId, invitationId)
  \/ \E token \in RedeemTokens : ValidateToken(token)
  \/ \E adminId \in Admins, unitId \in SendUnitIds : SendInvites(adminId, unitId)

Spec == Init /\ [][Next]_vars


\* ------------------------------------------ requests served at the same time
\* Every statement outside db.transaction commits on its own; the statements
\* of a db.transaction read what is committed (PostgreSQL's default READ
\* COMMITTED) and their writes show at COMMIT.  A transaction's statements
\* are taken in one step and its COMMIT in a later one; a write that would
\* wait for a row lock of an uncommitted transaction is not enabled before
\* that transaction has committed.
ConcurrentAdmins == {"ad1", "ad2"}

\* SavePortfolioInput of one building with one unit
Tree(buildingId, name, unitId, unitNumber, rentersIn) ==
  [companyName |-> <<"C">>, contactEmail |-> <<"c", "@", "x">>,
   apartments |->
     << [id |-> buildingId, name |-> name, postalCode |-> <<"1">>,
         units |-> << [id |-> unitId, unitNumber |-> unitNumber,
                       renters |-> rentersIn] >>] >>]

ConcurrentPayloads ==
  { Tree("b1", <<"M">>, "u1", <<"4">>,
         << [id |-> "r", fullName |-> <<"J">>, email |-> <<"a", "@", "x">>] >>),
    Tree("b2", <<"N">>, "u2", <<"5">>,
         << [id |-> "r", fullName |-> <<"J">>, email |-> <<"b", "@", "x">>] >>),
    Tree("b1", <<"M">>, "u1", <<"4">>, <<>>) }

ConcurrentEmails == {<<"a", "@", "x">>, <<"b", "@", "x">>}

Done(op, ok, result, sel) ==
  [kind |-> "done", op |-> op, ok |-> ok, result |-> result, sel |-> sel]

Free(p) == calls[p].kind \in {"idle", "done"}

\* A request arrives.
Start == clock <= MaxOps /\ clock' = clock + 1

\* The response of process p's request.
Finish(p, op, ok, result, sel) ==
  /\ calls' = [calls EXCEPT ![p] = Done(op, ok, result, sel)]
  /\ lastOp' = Request(op, ok, result, sel)

\* The rows (and, under the unique index, the tokens) of a company in db: what
\* a savePortfolio transaction of that company may have locked.
Locked(db, companyId) ==
  LET bs == {b \in db.b : b.companyId = companyId}
      us == {u \in db.u : \E b \in bs : u.apartmentId = b.id}
      is == {i \in db.i : \E u \in us : i.unitId = u.id}
  IN  {<<"co", companyId>>} \cup {<<"b", b.id>> : b \in bs}
        \cup {<<"u", u.id>> : u \in us} \cup {<<"i", i.id>> : i \in is}
        \cup (IF tokenIndex THEN {<<"t", i.accessToken>> : i \in is} ELSE {})

LocksOf(call) ==
  IF call.kind = "save"
    THEN Locked(call.base, call.companyId) \cup Locked(call.result, call.companyId)
    ELSE {}

HeldByOthers(p) == UNION {LocksOf(calls[q]) : q \in Procs \ {p}}

\* POST /api/portfolio/save up to the last statement of the transaction
SaveBegin(p, adminId, payload) ==
  /\ Free(p)
  /\ Start
  /\ IF ~PortfolioSchemaOk(payload)
       THEN /\ Finish(p, "save", FALSE, "Validation failed", Null)
            /\ UNCHANGED nextId
       ELSE \E out \in savePortfolio(Database, nextId, adminId, payload, clock) :
              /\ (Locked(Database, out.companyId) \cup Locked(out.db, out.companyId))
                   \cap HeldByOthers(p) = {}
              /\ nextId' = out.nid
              /\ IF out.ok
                   THEN /\ calls' = [calls EXCEPT ![p] =
                                       [kind |-> "save", companyId |-> out.companyId,
                                        base |-> Database, result |-> out.db]]
                        /\ UNCHANGED lastOp
                   ELSE Finish(p, "save", FALSE, out.error, out.companyId)
  /\ UNCHANGED <<rentalCompanies, apartmentBuildings, rentalUnits, renterInvitations,
                 renters, renterSessions, tokenIndex, createdFrom>>

\* COMMIT of the savePortfolio transaction, and the 200 response
SaveCommit(p) ==
  /\ calls[p].kind = "save"
  /\ LET c == calls[p]
         Apply(table, f) == (table \ (c.base[f] \ c.result[f])) \cup (c.result[f] \ c.base[f])
     IN  /\ rentalCompanies' = Apply(rentalCompanies, "co")
         /\ apartmentBuildings' = Apply(apartmentBuildings, "b")
         /\ rentalUnits' = Apply(rentalUnits, "u")
         /\ renterInvitations' = Apply(renterInvitations, "i")
         /\ Finish(p, "save", TRUE, "ok", c.companyId)
  /\ UNCHANGED <<renters, renterSessions, tokenIndex, clock, nextId, createdFrom>>

\* POST /api/renters/register: validation, the invitation lookup and its checks
RedeemSelect(p, token, fullName, email) ==
  /\ Free(p)
  /\ Start
  /\ LET found == {j \in JoinedInvitations : j.inv.accessToken = token}
     IN  IF ~RegistrationSchemaOk(token, fullName, email)
           THEN Finish(p, "redeem", FALSE, "Validation failed", Null)
         ELSE IF found = {}
           THEN Finish(p, "redeem", FALSE, "Invalid token", Null)
         ELSE \E invitation \in found :
                IF invitation.inv.status = "used"
                  THEN Finish(p, "redeem", FALSE, "AlreadyUsed", invitation.inv.id)
                ELSE IF ~EmailMatches(email, invitation.inv.renterEmail)
                  THEN Finish(p, "redeem", FALSE, "EmailMismatch", invitation.inv.id)
                ELSE /\ calls' = [calls EXCEPT ![p] =
                                    [kind |-> "redeem", pc |-> "find",
                                     invitation |-> invitation,
                                     email |-> toLowerCase(email), fullName |-> fullName,
                                     renterId |-> Null]]
                     /\ UNCHANGED lastOp
  /\ UNCHANGED <<rentalCompanies, apartmentBuildings, rentalUnits, renterInvitations,
                 renters, renterSessions, tokenIndex, nextId, createdFrom>>

\* createRenterAccount: findRenterByEmail
RedeemFind(p) ==
  /\ calls[p].kind = "redeem" /\ calls[p].pc = "find"
  /\ IF \E r \in renters : r.email = toLowerCase(calls[p].email)
       THEN Finish(p, "redeem", FALSE, "A renter with this email already exists.",
                   calls[p].invitation.inv.id)
       ELSE /\ calls' = [calls EXCEPT ![p].pc = "insert"]
            /\ UNCHANGED lastOp
  /\ UNCHANGED <<rentalCompanies, apartmentBuildings, rentalUnits, renterInvitations,
                 renters, renterSessions, tokenIndex, clock, nextId, createdFrom>>

\* createRenterAccount: db.insert(renters)
RedeemInsert(p) ==
  /\ calls[p].kind = "redeem" /\ calls[p].pc = "insert"
  /\ LET c == calls[p]
         renter == [id |-> nextId, fullName |-> trim(c.fullName),
                    email |-> toLowerCase(c.email),
                    apartmentName |-> trim(c.invitation.apartment.name),
                    unitNumber |-> trim(c.invitation.unit.unitNumber),
                    companyId |-> c.invitation.apartment.companyId, createdAt |-> clock]
     IN  \/ /\ Finish(p, "redeem", FALSE, "Registration failed", c.invitation.inv.id)
            /\ UNCHANGED <<renters, nextId, createdFrom>>
         \/ /\ renters' = renters \cup {renter}
            /\ nextId' = nextId + 1
            /\ createdFrom' = [r \in DOMAIN createdFrom \cup {nextId} |->
                                 IF r = nextId THEN c.invitation.inv.id ELSE createdFrom[r]]
            /\ calls' = [calls EXCEPT ![p].pc = "session", ![p].renterId = nextId]
            /\ UNCHANGED lastOp
  /\ UNCHANGED <<rentalCompanies, apartmentBuildings, rentalUnits, renterInvitations,
                 renterSessions, tokenIndex, clock>>

\* createRenterAccount: createRenterSession
RedeemSession(p) ==
  /\ calls[p].kind = "redeem" /\ calls[p].pc = "session"
  /\ LET c == calls[p]
         cleared == {x \in renterSessions : x.renterId # c.renterId}
     IN  \/ /\ renterSessions' = cleared
            /\ Finish(p, "redeem", FALSE, "Registration failed", c.invitation.inv.id)
            /\ UNCHANGED nextId
         \/ /\ renterSessions' = cleared \cup {[id |-> nextId, renterId |-> c.renterId]}
            /\ nextId' = nextId + 1
            /\ calls' = [calls EXCEPT ![p].pc = "mark"]
            /\ UNCHANGED lastOp
  /\ UNCHANGED <<rentalCompanies, apartmentBuildings, rentalUnits, renterInvitations,
                 renters, tokenIndex, clock, createdFrom>>

\* register route: db.update(renterInvitations) by id, and the 201 response
RedeemMark(p) ==
  /\ calls[p].kind = "redeem" /\ calls[p].pc = "mark"
  /\ <<"i", calls[p].invitation.inv.id>> \notin HeldByOthers(p)
  /\ LET c == calls[p]
     IN  \/ /\ Finish(p, "redeem", FALSE, "Registration failed", c.invitation.inv.id)
            /\ UNCHANGED renterInvitations
         \/ /\ renterInvitations' =
                 {IF r.id = c.invitation.inv.id
                    THEN [r EXCEPT !.status = "used", !.activatedAt = clock]
                    ELSE r : r \in renterInvitations}
            /\ Finish(p, "redeem", TRUE, "ok", c.invitation.inv.id)
  /\ UNCHANGED <<rentalCompanies, apartmentBuildings, rentalUnits, renters, renterSessions,
                 tokenIndex, clock, nextId, createdFrom>>

\* POST /api/portfolio/withdraw-invite: the invitation lookup
WithdrawSelect(p, adminId, invitationId) ==
  /\ Free(p)
  /\ Start
  /\ LET inviteRow == {j \in JoinedInvitations : j.inv.id = invitationId}
     IN  IF inviteRow = {}
           THEN Finish(p, "withdraw", FALSE, "NotFound", invitationId)
           ELSE \E j \in inviteRow :
                  /\ calls' = [calls EXCEPT ![p] =
                                 [kind |-> "withdraw", pc |-> "company", adminId |-> adminId,
                                  inviteRow |-> [id |-> j.inv.id, status |-> j.inv.status,
                                                 companyId |-> j.apartment.companyId]]]
                  /\ UNCHANGED lastOp
  /\ UNCHANGED <<rentalCompanies, apartmentBuildings, rentalUnits, renterInvitations,
                 renters, renterSessions, tokenIndex, nextId, createdFrom>>

\* withdraw-invite route: the company lookup, and the checks of the owner and
\* of the status the invitation lookup returned
WithdrawCompany(p) ==
  /\ calls[p].kind = "withdraw" /\ calls[p].pc = "company"
  /\ LET c == calls[p]
         companies == {x \in rentalCompanies : x.adminId = c.adminId}
     IN  IF companies = {}
           THEN Finish(p, "withdraw", FALSE, "Forbidden", c.inviteRow.id)
           ELSE \E company \in companies :
                  IF company.id # c.inviteRow.companyId
                    THEN Finish(p, "withdraw", FALSE, "Forbidden", c.inviteRow.id)
                  ELSE IF c.inviteRow.status = "used"
                    THEN Finish(p, "withdraw", FALSE, "AlreadyUsed", c.inviteRow.id)
                  ELSE /\ calls' = [calls EXCEPT ![p].pc = "delete"]
                       /\ UNCHANGED lastOp
  /\ UNCHANGED <<rentalCompanies, apartmentBuildings, rentalUnits, renterInvitations,
                 renters, renterSessions, tokenIndex, clock, nextId, createdFrom>>

\* withdraw-invite route: db.delete(renterInvitations) by id, and the response
WithdrawDelete(p) ==
  /\ calls[p].kind = "withdraw" /\ calls[p].pc = "delete"
  /\ <<"i", calls[p].inviteRow.id>> \notin HeldByOthers(p)
  /\ \/ /\ Finish(p, "withdraw", FALSE, "Failed to withdraw invitation", calls[p].inviteRow.id)
        /\ UNCHANGED renterInvitations
     \/ /\ renterInvitations' = {r \in renterInvitations : r.id # calls[p].inviteRow.id}
        /\ Finish(p, "withdraw", TRUE, "ok", calls[p].inviteRow.id)
  /\ UNCHANGED <<rentalCompanies, apartmentBuildings, rentalUnits, renters, renterSessions,
                 tokenIndex, clock, nextId, createdFrom>>

ConcurrentNext ==
  \/ \E p \in Procs, adminId \in ConcurrentAdmins, payload \in ConcurrentPayloads :
       SaveBegin(p, adminId, payload)
  \/ \E p \in Procs : SaveCommit(p)
  \/ \E p \in Procs, token \in RedeemTokens, fullName \in RedeemNames,
        email \in ConcurrentEmails : RedeemSelect(p, token, fullName, email)
  \/ \E p \in Procs : RedeemFind(p)
  \/ \E p \in Procs : RedeemInsert(p)
  \/ \E p \in Procs : RedeemSession(p)
  \/ \E p \in Procs : RedeemMark(p)
  \/ \E p \in Procs, adminId \in ConcurrentAdmins,
        invitationId \in {r.id : r \in renterInvitations} \cup {Null} :
       WithdrawSelect(p, adminId, invitationId)
  \/ \E p \in Procs : WithdrawCompany(p)
  \/ \E p \in Procs : WithdrawDelete(p)

ConcurrentSpec == Init /\ [][ConcurrentNext]_vars

\* ---------------------------------------------------------- admin dashboard
\* ORDER BY on text: code-point order of the characters the inputs use.
CharCode(c) ==
  CASE c = " " -> 32 [] c = "1" -> 49 [] c = "2" -> 50 [] c = "4" -> 52 [] c = "5" -> 53
    [] c = "@" -> 64 [] c = "A" -> 65 [] c = "C" -> 67 [] c = "J" -> 74 [] c = "K" -> 75
    [] c = "M" -> 77 [] c = "N" -> 78 [] c = "a" -> 97 [] c = "b" -> 98 [] c = "c" -> 99
    [] c = "j" -> 106 [] c = "k" -> 107 [] c = "m" -> 109 [] c = "n" -> 110
    [] c = "o" -> 111 [] c = "x" -> 120 [] OTHER -> 0

RECURSIVE TextLeq(_, _)
TextLeq(t1, t2) ==
  IF t1 = <<>> THEN TRUE
  ELSE IF t2 = <<>> THEN FALSE
  ELSE IF CharCode(Head(t1)) < CharCode(Head(t2)) THEN TRUE
  ELSE IF CharCode(Head(t1)) > CharCode(Head(t2)) THEN FALSE
  ELSE TextLeq(Tail(t1), Tail(t2))

\* The sequences a SELECT ... ORDER BY can return for the rows S: rows that tie
\* come in any order.
OrderBy(S, Before(_, _)) ==
  { q \in [1..Cardinality(S) -> S] :
      /\ \A x \in S : \E k \in DOMAIN q : q[k] = x
      /\ \A k1 \in DOMAIN q : \A k2 \in DOMAIN q : k1 < k2 => Before(q[k1], q[k2]) }

\* A select that forgets the status condition.
InvitationsOfAnyStatus(apartmentId, status) ==
  { [invitationId |-> j.inv.id, renterName |-> j.inv.renterName,
     renterEmail |-> j.inv.renterEmail, unitNumber |-> j.unit.unitNumber,
     accessToken |-> j.inv.accessToken, status |-> j.inv.status,
     createdAt |-> j.inv.createdAt]
    : j \in {x \in [inv : renterInvitations, unit : rentalUnits] :
               x.unit.id = x.inv.unitId /\ x.unit.apartmentId = apartmentId} }

\* getAdminDashboard: the invitations of a building's units with a status
InvitationsOf(apartmentId, status) ==
  { [invitationId |-> j.inv.id, renterName |-> j.inv.renterName,
     renterEmail |-> j.inv.renterEmail, unitNumber |-> j.unit.unitNumber,
     accessToken |-> j.inv.accessToken, status |-> j.inv.status,
     createdAt |-> j.inv.createdAt]
    : j \in {x \in [inv : renterInvitations, unit : rentalUnits] :
               /\ x.unit.id = x.inv.unitId
               /\ x.unit.apartmentId = apartmentId
               /\ x.inv.status = status} }

\* getAdminDashboard: the renters whose apartmentName is the building's name
ActiveRenters(apt) ==
  { [renterId |-> r.id, fullName |-> r.fullName, email |-> r.email,
     unitNumber |-> r.unitNumber]
    : r \in {x \in renters : x.apartmentName = apt.name} }

\* getAdminDashboard: the ApartmentDashboard entries possible for a building
ApartmentDashboards(apt) ==
  { [apartmentId |-> apt.id, apartmentName |-> apt.name, postalCode |-> apt.postalCode,
     pendingInvitations |-> pendingInvites, pastInvitations |-> pastInvites,
     activeRenters |-> activeRenterRows]
    : pendingInvites \in OrderBy(InvitationsOf(apt.id, "pending"),
                                 LAMBDA x, y : x.createdAt >= y.createdAt),
      pastInvites \in OrderBy(InvitationsOf(apt.id, "used"),
                              LAMBDA x, y : x.createdAt >= y.createdAt),
      activeRenterRows \in
        OrderBy(ActiveRenters(apt),
                LAMBDA x, y : IF x.unitNumber = y.unitNumber
                                THEN TextLeq(x.fullName, y.fullName)
                                ELSE TextLeq(y.unitNumber, x.unitNumber)) }

\* getAdminDashboard(adminId): the results possible
getAdminDashboard(adminId) ==
  LET companies == {c \in rentalCompanies : c.adminId = adminId}
  IN  IF companies = {}
        THEN {[companyName |-> Null, apartments |-> <<>>]}
        ELSE UNION { UNION {
               { [companyName |-> company.name, apartments |-> apartments]
                 : apartments \in
                     { q \in [DOMAIN apartmentRecords ->
                                UNION {ApartmentDashboards(apt) : apt \in apartmentBuildings}] :
                         \A k \in DOMAIN q : q[k] \in ApartmentDashboards(apartmentRecords[k]) } }
               : apartmentRecords \in
                   OrderBy({b \in apartmentBuildings : b.companyId = company.id},
                           LAMBDA x, y : TextLeq(x.name, y.name)) }
             : company \in companies }

\* The admin dashboard request: reads only
GetDashboard(adminId) ==
  /\ Tick
  /\ \E dashboard \in getAdminDashboard(adminId) :
       lastOp' = Request("dashboard", TRUE, "ok", Len(dashboard.apartments))
  /\ UNCHANGED <<rentalCompanies, apartmentBuildings, rentalUnits, renterInvitations,
                 renters, renterSessions, tokenIndex, nextId, createdFrom>>

\* --------------------------------------------- two admins, one request at a time
TenantPayloads ==
  ConcurrentPayloads \cup
    { Tree("b1", <<"M">>, "u1", <<"4">>,
           << [id |-> "r", fullName |-> <<"J">>, email |-> <<"a", "@", "x">>],
              [id |-> "r", fullName |-> <<"J">>, email |-> <<"b", "@", "x">>] >>),
      \* a building whose postal code is blank
      [ Tree("b2", <<"N">>, "u2", <<"5">>,
             << [id |-> "r", fullName |-> <<"J">>, email |-> <<"b", "@", "x">>] >>)
        EXCEPT !.apartments[1].postalCode = <<" ">> ],
      \* a building of one's own with the unit id of another building
      Tree("b2", <<"N">>, "u1", <<"4">>,
           << [id |-> "r", fullName |-> <<"J">>, email |-> <<"a", "@", "x">>] >>),
      \* a second building of the name "M"
      Tree("b2", <<"M">>, "u2", <<"5">>, <<>>) }

TenantNext ==
  \/ \E adminId \in ConcurrentAdmins, payload \in TenantPayloads :
       SavePortfolio(adminId, payload)
  \/ \E token \in RedeemTokens, fullName \in RedeemNames, email \in ConcurrentEmails :
       Redeem(token, fullName, email)
  \/ \E adminId \in ConcurrentAdmins,
        invitationId \in {r.id : r \in renterInvitations} \cup {Null} :
       Withdraw(adminId, invitationId)
  \/ \E adminId \in ConcurrentAdmins : GetDashboard(adminId)

TenantSpec == Init /\ [][TenantNext]_vars

\* ------------------------------------------------------------------ claims
\* The payloads the save route passes on to savePortfolio.
ValidPayloads == {p \in Payloads : PortfolioSchemaOk(p)}

Used == {i \in renterInvitations : i.status = "used"}

\* C1: no two distinct invitation rows hold the same access token, also not two
\* rows created by one savePortfolio call.
TokenUniqueness ==
  \A i1 \in renterInvitations : \A i2 \in renterInvitations :
    i1.id # i2.id => i1.accessToken # i2.accessToken

\* C2: once a redeem of a token has succeeded (an invitation carrying the token
\* is used), no redeem selecting a used invitation succeeds, and every further
\* redeem with that token answers AlreadyUsed and writes nothing.
SingleRedemption ==
  \A token \in {i.accessToken : i \in Used} :
    \A email \in RedeemEmails : \A fullName \in RedeemNames :
      \A out \in RegisterOutcomes(token, fullName, email, clock) :
        /\ out.result = "AlreadyUsed"
        /\ out.renters = renters
        /\ out.sessions = renterSessions
        /\ out.invitations = renterInvitations

\* C3: no renter row exists whose invitation is still there with status pending.
RedeemAtomic ==
  \A r \in DOMAIN createdFrom :
    \A i \in renterInvitations : i.id = createdFrom[r] => i.status # "pending"

\* C4: an invitation enters the table with status pending, and the status of
\* an invitation id changes at most from pending to used; from used it never
\* changes, whatever the request.
InvitationLifecycle ==
  [][ \A j \in renterInvitations' :
        IF \E i \in renterInvitations : i.id = j.id
          THEN \A i \in renterInvitations :
                 i.id = j.id =>
                   \/ j.status = i.status
                   \/ (i.status = "pending" /\ j.status = "used")
          ELSE j.status = "pending" ]_vars

C4Witness ==
  /\ lastOp.op = "save" /\ lastOp.ok
  /\ \E i \in renterInvitations : i.status = "used" /\ i.activatedAt # Null

\* The ids, tokens and statuses a save is to leave alone when repeated.
Identity(db) ==
  [buildings |-> {r.id : r \in db.b}, units |-> {r.id : r \in db.u},
   invitations |-> {<<r.id, r.accessToken, r.status>> : r \in db.i}]

\* C5: a second savePortfolio call with the payload of a first, successful one
\* leaves the building ids, the unit ids and the invitations' ids, tokens and
\* statuses as the first call left them.
IdempotentSave ==
  \A adminId \in Admins : \A payload \in ValidPayloads :
    \A first \in savePortfolio(Database, nextId, adminId, payload, clock) :
      first.ok =>
        \A second \in savePortfolio(first.db, first.nid, adminId, payload, clock + 1) :
          Identity(second.db) = Identity(first.db)

\* (building name, unit number, lowercased renter email) of the rows of a company
StoredTriples(db, companyId) ==
  { <<j.apartment.name, j.unit.unitNumber, toLowerCase(j.inv.renterEmail)>>
    : j \in {x \in [inv : db.i, unit : db.u, apartment : db.b] :
               /\ x.unit.id = x.inv.unitId
               /\ x.apartment.id = x.unit.apartmentId
               /\ x.apartment.companyId = companyId} }

\* The triples a tree describes; an entry with a blank name, number or email
\* describes none.
DescribedTriples(payload) ==
  UNION { UNION { { <<trim(payload.apartments[a].name),
                      trim(payload.apartments[a].units[u].unitNumber),
                      toLowerCase(trim(payload.apartments[a].units[u].renters[r].email))>>
                    : r \in {x \in 1..Len(payload.apartments[a].units[u].renters) :
                               /\ trim(payload.apartments[a].name) # <<>>
                               /\ trim(payload.apartments[a].units[u].unitNumber) # <<>>
                               /\ trim(payload.apartments[a].units[u].renters[x].email) # <<>>
                               /\ trim(payload.apartments[a].units[u].renters[x].fullName) # <<>>} }
                  : u \in 1..Len(payload.apartments[a].units) }
          : a \in 1..Len(payload.apartments) }

\* C6: after a successful savePortfolio the triples stored for the company are
\* exactly those the payload describes.
ConvergentDiff ==
  \A adminId \in Admins : \A payload \in ValidPayloads :
    \A out \in savePortfolio(Database, nextId, adminId, payload, clock) :
      out.ok => StoredTriples(out.db, out.companyId) = DescribedTriples(payload)

\* C7: a savePortfolio call that fails leaves every company, building, unit and
\* invitation row as it was before the call.
AtomicFailure ==
  [][ (lastOp'.op = "save" /\ ~lastOp'.ok) =>
        UNCHANGED <<rentalCompanies, apartmentBuildings, rentalUnits, renterInvitations>> ]_vars

C7Witness ==
  /\ lastOp.op = "save" /\ ~lastOp.ok /\ lastOp.result = "transaction failed"
  /\ renterInvitations # {}

\* C8: a redeem that finds a pending invitation answers EmailMismatch and writes
\* nothing when the email given differs, letter case aside, from the
\* invitation's; an email that differs in letter case only is not refused.
SameIgnoringCase(e1, e2) ==
  Len(e1) = Len(e2) /\ \A k \in 1..Len(e1) : LowerChar(e1[k]) = LowerChar(e2[k])

EmailBound ==
  \A token \in RedeemTokens : \A email \in RedeemEmails : \A fullName \in RedeemNames :
    \A out \in RegisterOutcomes(token, fullName, email, clock) :
      \A i \in renterInvitations :
        (i.id = out.sel /\ i.status = "pending") =>
          IF SameIgnoringCase(email, i.renterEmail)
            THEN out.result # "EmailMismatch"
            ELSE /\ out.result = "EmailMismatch"
                 /\ out.renters = renters
                 /\ out.sessions = renterSessions
                 /\ out.invitations = renterInvitations

C8Witness ==
  /\ lastOp.op = "redeem" /\ lastOp.result = "EmailMismatch"
  /\ \E i \in renterInvitations : i.id = lastOp.sel /\ i.status = "pending"

\* C9: savePortfolio changes no field of an invitation whose status is used.
UsedImmutable ==
  [][ lastOp'.op = "save" =>
        \A i \in Used :
          \A j \in renterInvitations' : j.id = i.id => j = i ]_vars

\* C10: an invitation whose unit the payload lists with an entry of the same
\* email (trimmed, lowercased) is still there after a successful savePortfolio,
\* unchanged but for the renter name, and the call creates no further
\* invitation of that unit for that email.
MatchedKeepIdentity ==
  \A adminId \in Admins : \A payload \in ValidPayloads :
    \A out \in savePortfolio(Database, nextId, adminId, payload, clock) :
      out.ok =>
        \A i \in renterInvitations :
          (\E a \in 1..Len(payload.apartments) :
             \E u \in 1..Len(payload.apartments[a].units) :
               /\ payload.apartments[a].units[u].id = i.unitId
               /\ \E r \in 1..Len(payload.apartments[a].units[u].renters) :
                    toLowerCase(trim(payload.apartments[a].units[u].renters[r].email))
                      = toLowerCase(i.renterEmail))
          => /\ \E j \in out.db.i : j = [i EXCEPT !.renterName = j.renterName]
             /\ \A j \in out.db.i :
                  (j.unitId = i.unitId
                     /\ toLowerCase(j.renterEmail) = toLowerCase(i.renterEmail))
                  => \E k \in renterInvitations : k.id = j.id


\* C11: when two savePortfolio calls running at the same time have both
\* committed, no two invitations carry the same access token.
NoDuplicateTokenAfterConcurrentSaves ==
  (\A p \in Procs : calls[p].kind = "done" /\ calls[p].op = "save" /\ calls[p].ok)
    => Cardinality({i.accessToken : i \in renterInvitations})
         = Cardinality(renterInvitations)

\* C12: of the redeem calls of one invitation at most one succeeds, and at most
\* one renter row is created from it.
NoDoubleSpend ==
  /\ \A p \in Procs : \A q \in Procs \ {p} :
       ~ /\ calls[p].kind = "done" /\ calls[p].op = "redeem" /\ calls[p].ok
         /\ calls[q].kind = "done" /\ calls[q].op = "redeem" /\ calls[q].ok
         /\ calls[p].sel = calls[q].sel
  /\ \A r1 \in DOMAIN createdFrom : \A r2 \in DOMAIN createdFrom :
       r1 # r2 => createdFrom[r1] # createdFrom[r2]

\* C13: no admin owns two company rows, and a successful savePortfolio call of
\* an admin who owns a company keeps that row, returns its id and leaves the
\* admin with one company; an admin without a company has one afterwards.
OneCompanyPerAdmin ==
  /\ \A c1 \in rentalCompanies : \A c2 \in rentalCompanies :
       c1.adminId = c2.adminId => c1 = c2
  /\ \A adminId \in ConcurrentAdmins : \A payload \in TenantPayloads :
       \A out \in savePortfolio(Database, nextId, adminId, payload, clock) :
         out.ok =>
           /\ Cardinality({c \in out.db.co : c.adminId = adminId}) = 1
           /\ \A c \in out.db.co : c.adminId = adminId => c.id = out.companyId
           /\ \A c \in rentalCompanies :
                c.adminId = adminId => out.companyId = c.id

C13Witness ==
  /\ lastOp.op = "save" /\ lastOp.ok
  /\ Cardinality(rentalCompanies) = 2
  /\ \E j \in JoinedInvitations :
       j.apartment.companyId = lastOp.sel /\ j.inv.createdAt < clock - 1

\* C14: no unit has two invitations whose renter emails are equal letter case
\* aside, whatever the payloads, also those listing an email twice in a unit.
PerUnitEmailUniqueness ==
  \A i1 \in renterInvitations : \A i2 \in renterInvitations :
    (i1.id # i2.id /\ i1.unitId = i2.unitId)
      => ~SameIgnoringCase(i1.renterEmail, i2.renterEmail)

\* Every unit references a stored building and every invitation a stored unit.
ReferentialIntegrity ==
  /\ \A u \in rentalUnits : \E b \in apartmentBuildings : b.id = u.apartmentId
  /\ \A i \in renterInvitations : \E u \in rentalUnits : u.id = i.unitId

\* C15: referential integrity holds before and after every request, and a
\* savePortfolio that removes a building or a unit removes, in the same step,
\* the unit rows and invitation rows that were below it.
CascadingDelete ==
  [][ /\ ReferentialIntegrity
      /\ ReferentialIntegrity'
      /\ lastOp'.op = "save" =>
           /\ \A b \in apartmentBuildings \ apartmentBuildings' :
                (\A b2 \in apartmentBuildings' : b2.id # b.id) =>
                  \A u \in rentalUnits : u.apartmentId = b.id => u \notin rentalUnits'
           /\ \A u \in rentalUnits \ rentalUnits' :
                \A i \in renterInvitations : i.unitId = u.id => i \notin renterInvitations'
    ]_vars

C15Witness ==
  /\ lastOp.op = "save" /\ lastOp.ok /\ clock = 3 /\ nextId >= 3
  /\ apartmentBuildings = {} /\ rentalUnits = {} /\ renterInvitations = {}
  /\ renters = {}

\* C16: neither savePortfolio nor the withdraw route deletes or changes a row
\* of renters, also not the renter whose used invitation, unit or building the
\* request removes.
RentersSurvive ==
  [][ lastOp'.op \in {"save", "withdraw"} => renters' = renters ]_vars

C16Witness ==
  /\ lastOp.op = "save" /\ lastOp.ok
  /\ \E r \in renters :
       /\ r.id \in DOMAIN createdFrom
       /\ \A i \in renterInvitations : i.id # createdFrom[r.id]

\* C17: the withdraw route deletes the invitation, and nothing else, only if
\* the invitation exists, its unit's building belongs to the company of the
\* requesting admin and its status is not used; it answers NotFound when the
\* invitation does not exist, Forbidden when it is not the admin's, AlreadyUsed
\* when it is used, and an unsuccessful withdraw changes no invitation.
WithdrawGuard ==
  \A adminId \in ConcurrentAdmins :
    \A invitationId \in {r.id : r \in renterInvitations} \cup {Null} :
      \A out \in WithdrawOutcomes(adminId, invitationId) :
        LET rows == {i \in renterInvitations : i.id = invitationId}
            owned == \E j \in JoinedInvitations :
                       /\ j.inv.id = invitationId
                       /\ \E c \in rentalCompanies :
                            c.adminId = adminId /\ c.id = j.apartment.companyId
            used == \E i \in rows : i.status = "used"
        IN  /\ out.ok => /\ rows # {} /\ owned /\ ~used
                         /\ out.invitations = renterInvitations \ rows
            /\ ~out.ok => out.invitations = renterInvitations
            /\ rows = {} => out.result = "NotFound"
            /\ (rows # {} /\ ~owned) => out.result = "Forbidden"
            /\ (rows # {} /\ owned /\ used) => out.result = "AlreadyUsed"

C17Witness ==
  /\ lastOp.op = "withdraw" /\ lastOp.result = "Forbidden"
  /\ Cardinality(rentalCompanies) = 2
  /\ \E i \in renterInvitations : i.id = lastOp.sel

\* C18: reserveAccessToken makes at most 10 draws; it returns a token its
\* existence check did not find, or (after 10 colliding draws) throws, and the
\* savePortfolio call it throws in fails and leaves every table as it was.
BoundedAllocation ==
  [][ /\ \A o \in reserveAccessToken(0, {r.accessToken : r \in renterInvitations}) :
           /\ o.attempts \in 1..MaxAttempts
           /\ o.token = Exhausted => o.attempts = MaxAttempts
           /\ o.token # Exhausted =>
                \A r \in renterInvitations : r.accessToken # o.token
      /\ (lastOp'.op = "save" /\ lastOp'.result = AllocationExhausted) =>
           /\ ~lastOp'.ok
           /\ UNCHANGED <<rentalCompanies, apartmentBuildings, rentalUnits,
                          renterInvitations>>
    ]_vars

C18Witness ==
  /\ lastOp.op = "save" /\ lastOp.result = AllocationExhausted
  /\ \A k \in RandomDraws :
       \E r \in renterInvitations : r.accessToken = generateAccessToken(k)

\* C19: the access token of every stored invitation is a string of exactly six
\* decimal digits.
TokenFormat ==
  \A i \in renterInvitations :
    /\ Len(i.accessToken) = TokenLen
    /\ \A k \in 1..Len(i.accessToken) : i.accessToken[k] \in {Digit(d) : d \in 0..9}

C19Witness ==
  \A k \in RandomDraws :
    \E i \in renterInvitations : i.accessToken = generateAccessToken(k)

\* The (id, token) pairs of a list of dashboard invitations.
Listed(invitations) ==
  {<<invitations[k].invitationId, invitations[k].accessToken>> : k \in DOMAIN invitations}

\* C20: getAdminDashboard lists every building of the admin's company once,
\* and for each building pendingInvitations holds exactly its invitations with
\* status pending and pastInvitations exactly those with status used, each
\* once and with its token; no invitation is in both lists and every invitation
\* of the building is in one of them.
DashboardPartition ==
  \A adminId \in ConcurrentAdmins : \A dashboard \in getAdminDashboard(adminId) :
    LET listed == dashboard.apartments
        mine == {b \in apartmentBuildings :
                   \E c \in rentalCompanies : c.adminId = adminId /\ c.id = b.companyId}
        Of(apartmentId, statuses) ==
          {<<j.inv.id, j.inv.accessToken>>
             : j \in {x \in JoinedInvitations :
                        x.apartment.id = apartmentId /\ x.inv.status \in statuses}}
    IN  /\ {listed[k].apartmentId : k \in DOMAIN listed} = {b.id : b \in mine}
        /\ Len(listed) = Cardinality(mine)
        /\ \A k \in DOMAIN listed :
             LET pending == listed[k].pendingInvitations
                 past == listed[k].pastInvitations
             IN  /\ Listed(pending) = Of(listed[k].apartmentId, {"pending"})
                 /\ Listed(past) = Of(listed[k].apartmentId, {"used"})
                 /\ Len(pending) = Cardinality(Listed(pending))
                 /\ Len(past) = Cardinality(Listed(past))
                 /\ Listed(pending) \cap Listed(past) = {}
                 /\ Listed(pending) \cup Listed(past)
                      = Of(listed[k].apartmentId, {"pending", "used"})
                 /\ Of(listed[k].apartmentId, {"pending", "used"})
                      = {<<j.inv.id, j.inv.accessToken>>
                           : j \in {x \in JoinedInvitations :
                                      x.apartment.id = listed[k].apartmentId}}

C20Witness ==
  /\ lastOp.op = "dashboard" /\ lastOp.sel = 1
  /\ Cardinality(apartmentBuildings) = 1
  /\ \E i1 \in renterInvitations : \E i2 \in renterInvitations :
       i1.unitId = i2.unitId /\ i1.status = "pending" /\ i2.status = "used"

\* C21: when a savePortfolio that removes an invitation runs at the same time
\* as a redeem of that invitation, every redeem that answers with success has
\* set its invitation to used: at the 201 response the invitation row is there
\* with status used.
RedeemMarksUsed ==
  [][ \A p \in Procs :
        (calls[p].kind = "redeem" /\ calls'[p].kind = "done" /\ calls'[p].ok)
          => \E i \in renterInvitations' : i.id = calls'[p].sel /\ i.status = "used" ]_vars

\* C22: the withdraw route never deletes an invitation whose status is used at
\* the moment of the delete, also when a redeem of that invitation completes
\* between the route's status check and its delete.
WithdrawSparesUsed ==
  [][ \A p \in Procs :
        (calls[p].kind = "withdraw" /\ calls'[p].kind = "done" /\ calls'[p].ok)
          => \A i \in renterInvitations : i.id = calls'[p].sel => i.status # "used" ]_vars

\* C23: when the savePortfolio calls served at the same time have finished, no
\* admin owns two company rows, and every building stored belongs to the one
\* company of an admin.
OneCompanyAfterConcurrentSaves ==
  (\A p \in Procs : calls[p].kind = "done" /\ calls[p].op = "save")
    => /\ \A c1 \in rentalCompanies : \A c2 \in rentalCompanies :
            c1.adminId = c2.adminId => c1 = c2
       /\ \A b \in apartmentBuildings :
            Cardinality({c \in rentalCompanies : c.id = b.companyId}) = 1

ActivationMatchesStatus(invitations) ==
  \A i \in invitations : (i.activatedAt # Null) <=> (i.status = "used")

\* C24: in every state an invitation has an activation timestamp exactly when
\* its status is used; an invitation enters the table without one, and the
\* timestamp of an invitation is written by a successful redeem of it only.
ActivationTracksStatus ==
  [][ /\ ActivationMatchesStatus(renterInvitations)
      /\ ActivationMatchesStatus(renterInvitations')
      /\ \A j \in renterInvitations' :
           IF \E i \in renterInvitations : i.id = j.id
             THEN \A i \in renterInvitations :
                    (i.id = j.id /\ i.activatedAt # j.activatedAt)
                      => /\ lastOp'.op = "redeem" /\ lastOp'.ok /\ lastOp'.sel = j.id
                         /\ i.activatedAt = Null
             ELSE j.activatedAt = Null ]_vars

C24Witness ==
  /\ lastOp.op = "redeem" /\ lastOp.ok
  /\ \E i \in renterInvitations :
       i.id = lastOp.sel /\ i.status = "used" /\ i.activatedAt = clock - 1
  /\ \E i \in renterInvitations : i.status = "pending" /\ i.activatedAt = Null

\* The rows of db stored for a building entry: the building of its id, the
\* units of its units' ids and the invitations of those units.
RowsOfApartment(db, apartment) ==
  LET unitIds == {apartment.units[u].id : u \in DOMAIN apartment.units}
  IN  [b |-> {r \in db.b : r.id = apartment.id},
       u |-> {r \in db.u : r.id \in unitIds},
       i |-> {r \in db.i : r.unitId \in unitIds}]

\* The rows of db stored for a unit entry.
RowsOfUnit(db, unit) ==
  [u |-> {r \in db.u : r.id = unit.id}, i |-> {r \in db.i : r.unitId = unit.id}]

\* The payload without its a-th building entry.
WithoutApartment(payload, a) ==
  [payload EXCEPT !.apartments =
     [k \in 1..(Len(payload.apartments) - 1) |->
        IF k < a THEN payload.apartments[k] ELSE payload.apartments[k + 1]]]

\* C25: a payload the save route accepts, with a building entry whose name or
\* postal code is blank after trimming, can be saved whenever the payload
\* without that entry can; and a successful savePortfolio creates or updates
\* no row for an entry whose building name, postal code or unit number is
\* blank, nor for a unit or renter below it.
BlankEntriesSkipped ==
  \A adminId \in ConcurrentAdmins :
    \A payload \in {x \in TenantPayloads : PortfolioSchemaOk(x)} :
      /\ \A a \in DOMAIN payload.apartments :
           ( /\ trim(payload.apartments[a].name) = <<>>
                  \/ trim(payload.apartments[a].postalCode) = <<>>
             /\ \E out \in savePortfolio(Database, nextId, adminId,
                                         WithoutApartment(payload, a), clock) : out.ok )
           => \E out \in savePortfolio(Database, nextId, adminId, payload, clock) : out.ok
      /\ \A out \in savePortfolio(Database, nextId, adminId, payload, clock) :
           out.ok =>
             \A a \in DOMAIN payload.apartments :
               LET apartment == payload.apartments[a]
               IN  IF trim(apartment.name) = <<>> \/ trim(apartment.postalCode) = <<>>
                     THEN RowsOfApartment(out.db, apartment)
                            = RowsOfApartment(Database, apartment)
                     ELSE \A u \in DOMAIN apartment.units :
                            trim(apartment.units[u].unitNumber) = <<>>
                              => RowsOfUnit(out.db, apartment.units[u])
                                   = RowsOfUnit(Database, apartment.units[u])

\* The tokens reserveAccessToken can return in the current state.
Allocatable ==
  {o.token : o \in reserveAccessToken(0, {r.accessToken : r \in renterInvitations})}
    \ {Exhausted}

\* C26, as stated: the allocator draws from the whole range 000000 to 999999,
\* so that a token with a leading zero is among its possible results.
LeadingZeroPossible ==
  \/ \E k \in RandomDraws : Head(generateAccessToken(k)) = "0"
  \/ \E t \in Allocatable : Head(t) = "0"

\* C26, amended: the allocator draws from 100000 to 999999: every token it can
\* return, and every token stored, has six digits of which the first is not 0,
\* and the lowest draw gives 100000.
TokenRange ==
  /\ generateAccessToken(0) = NumToString(TokenBase)
  /\ \A t \in Allocatable \cup {i.accessToken : i \in renterInvitations}
               \cup {generateAccessToken(k) : k \in RandomDraws} :
       /\ Len(t) = TokenLen
       /\ t[1] \in {Digit(d) : d \in 1..9}
       /\ \A k \in 2..Len(t) : t[k] \in {Digit(d) : d \in 0..9}

C26Witness ==
  /\ lastOp.op = "save" /\ lastOp.ok
  /\ \E i \in renterInvitations :
       i.accessToken = generateAccessToken(0) /\ i.createdAt = clock - 1
  /\ Allocatable # {}

\* C27, as stated: the preview answers with the renter name, renter email,
\* building name and unit number of an invitation carrying the token whenever
\* one exists, whatever its status, and with an error when none exists.
PreviewWhateverStatus ==
  \A token \in RedeemTokens : \A out \in ValidateTokenResult(token) :
    LET found == {j \in JoinedInvitations : j.inv.accessToken = token}
    IN  IF found = {} THEN ~out.ok
        ELSE out.ok /\ \E j \in found : out = PreviewDetails(j)

\* C27, amended: the preview changes no row; it answers with an error when no
\* invitation carries the token, with the renter name, renter email, building
\* name and unit number of the invitation its lookup returns when that one is
\* pending, and with AlreadyUsed when that one is used.
PreviewPureRead ==
  [][ /\ lastOp'.op = "preview" =>
           UNCHANGED <<rentalCompanies, apartmentBuildings, rentalUnits, renterInvitations,
                       renters, renterSessions>>
      /\ \A token \in RedeemTokens : \A out \in ValidateTokenResult(token) :
           LET found == {j \in JoinedInvitations : j.inv.accessToken = token}
           IN  /\ found = {} =>
                    /\ ~out.ok
                    /\ out.result \in {"Invalid token", "Invalid token format"}
               /\ out.ok =>
                    \E j \in found : j.inv.status = "pending" /\ out = PreviewDetails(j)
               /\ (found # {} /\ ~out.ok) =>
                    /\ out.result = "AlreadyUsed"
                    /\ \E j \in found : j.inv.status = "used" /\ out.sel = j.inv.id
               /\ (found # {} /\ \A j \in found : j.inv.status = "pending") => out.ok
               /\ (found # {} /\ \A j \in found : j.inv.status = "used") => ~out.ok
    ]_vars

C27Witness ==
  /\ lastOp.op = "preview" /\ lastOp.result = "AlreadyUsed"
  /\ \E i \in renterInvitations : i.id = lastOp.sel /\ i.status = "used"

\* The buildings, units and invitations of the companies `companyIds` in db.
RowsOfCompanies(db, companyIds) ==
  LET bs == {b \in db.b : b.companyId \in companyIds}
      us == {u \in db.u : \E b \in bs : b.id = u.apartmentId}
  IN  [b |-> bs, u |-> us, i |-> {i \in db.i : \E u \in us : u.id = i.unitId}]

\* C28: a savePortfolio call of an admin leaves the companies of the other
\* admins and their buildings, units and invitations as they were, also when
\* its payload carries a building id or a unit id of another company: every
\* row the call inserts, changes or deletes is of the admin's own company, and
\* a call that fails changes nothing.
ReconcileIsolation ==
  \A adminId \in ConcurrentAdmins : \A payload \in TenantPayloads :
    \A out \in savePortfolio(Database, nextId, adminId, payload, clock) :
      LET others == {c.id : c \in {x \in rentalCompanies : x.adminId # adminId}}
          own == ({c.id : c \in rentalCompanies} \ others) \cup {out.companyId}
      IN  /\ RowsOfCompanies(out.db, others) = RowsOfCompanies(Database, others)
          /\ {c \in out.db.co : c.id \in others} = {c \in rentalCompanies : c.id \in others}
          /\ \A b \in (out.db.b \ apartmentBuildings) \cup (apartmentBuildings \ out.db.b) :
               b.companyId \in own
          /\ \A u \in (out.db.u \ rentalUnits) \cup (rentalUnits \ out.db.u) :
               u \in RowsOfCompanies(out.db, own).u \cup RowsOfCompanies(Database, own).u
          /\ \A i \in (out.db.i \ renterInvitations) \cup (renterInvitations \ out.db.i) :
               i \in RowsOfCompanies(out.db, own).i \cup RowsOfCompanies(Database, own).i
          /\ ~out.ok => out.db = Database

C28Witness ==
  /\ lastOp.op = "save" /\ lastOp.result = DuplicateKey /\ ~tokenIndex
  /\ \E j \in JoinedInvitations : j.apartment.companyId # lastOp.sel
  /\ \E c \in rentalCompanies : c.id = lastOp.sel

\* C29: getAdminDashboard lists in the activeRenters of a building no renter
\* whose companyId is another company than the admin's, also when another
\* company has a building of the same name.
DashboardIsolation ==
  \A adminId \in ConcurrentAdmins : \A dashboard \in getAdminDashboard(adminId) :
    \A k \in DOMAIN dashboard.apartments :
      \A m \in DOMAIN dashboard.apartments[k].activeRenters :
        \A r \in renters :
          r.id = dashboard.apartments[k].activeRenters[m].renterId
            => \E c \in rentalCompanies : c.adminId = adminId /\ c.id = r.companyId

\* C30: in every state reached by requests served one at a time, a redeem
\* carrying the token of a pending invitation and the email stored with it
\* can succeed and then marks that invitation used, and it is refused for no
\* reason but a failing statement.  Stated for the states in which no redeem
\* has stopped half-way (C3) and no unit has two invitations of one email
\* (C14), and for a token no other invitation carries (C1).
PendingRedeemable ==
  \A i \in renterInvitations :
    ( /\ i.status = "pending"
      /\ RedeemAtomic
      /\ PerUnitEmailUniqueness
      /\ \A i2 \in renterInvitations : i2.accessToken = i.accessToken => i2 = i )
    => \A fullName \in RedeemNames :
         LET outs == RegisterOutcomes(i.accessToken, fullName, i.renterEmail, clock)
         IN  /\ \E out \in outs :
                  /\ out.ok
                  /\ \E j \in out.invitations : j.id = i.id /\ j.status = "used"
             /\ \A out \in outs : ~out.ok => out.result = "Registration failed"

====
